---- MODULE Spec2Model ----
(***************************************************************************)
(* Commitment Ledger (contracts/commitment_core/src/lib.rs) as a state     *)
(* machine.  One action per public entry point of CommitmentCoreContract.  *)
(* A Soroban invocation is atomic: an invocation that panics (assert!,     *)
(* unwrap, failed require_auth) leaves storage and token balances as they  *)
(* were, which is the result "panic" below.                                *)
(***************************************************************************)
EXTENDS Integers, Sequences, FiniteSets, TLC

VARIABLES
    store,      \* persistent storage: (Commit, commitment_id) -> Commitment
    bal,        \* token contracts: bal[asset][holder]
    instance,   \* instance storage: the set of keys written by initialize
    now,        \* e.ledger().timestamp()
    ncreated,   \* number of successful create_commitment calls so far
    call,       \* the last invocation: entry point, arguments, outcome
    fees,       \* Compliance Engine storage: commitment_id -> accumulated fees
    violations, \* what the core contract reports to the engine: commitment_id -> BOOLEAN
    attestations \* Compliance Engine storage: commitment_id -> sequence of AttestationRecord

vars == <<store, bal, instance, now, ncreated, call, fees, violations, attestations>>

---------------------------------------------------------------------------
(* Bounds of the model *)

MaxDays == 1

MaxCreates == 2

InitialBalance == 1000

SmallBalance == 5

(* 24 * 60 * 60, lib.rs:196 *)
SecondsPerDay == 86400

---------------------------------------------------------------------------
(* Addresses, assets, identifiers and inputs *)

Contract == "contract"

Owners == {"alice", "bob"}

Pools == {"pool"}

Holders == Owners \cup Pools \cup {Contract}

Assets == {"tokenA"}

(* the identifier create_commitment returns, lib.rs:192 *)
CommitmentIdStub == "commitment_"

Ids == {CommitmentIdStub, "commitment_2"}

NoAddress == "none"

Rules(d, m, p) ==
    [duration_days |-> d, max_loss_percent |-> m, commitment_type |-> "balanced",
     early_exit_penalty |-> p, min_fee_threshold |-> 0]

NoRules == Rules(0, 0, 0)

AmountInputs == {0, 5, 1000}

AllocateInputs == {0, 600}

ValueInputs == {0}

RulesInputs ==
    {Rules(1, 0, 10), Rules(2, 100, 150), Rules(1, 100, 100),
     Rules(0, 50, 10), Rules(1, 101, 10)}

(* create_commitment is called with every combination of arguments when the *)
(* owner has authorised the call, and with one combination when not        *)
CreateInputs ==
    {<<o, a, t, r, TRUE>> : o \in Owners, a \in AmountInputs, t \in Assets, r \in RulesInputs}
    \cup {<<o, 5, t, Rules(1, 0, 10), FALSE>> : o \in Owners, t \in Assets}

(* early_exit is called with every id and caller when the caller has      *)
(* authorised the call, and with one combination when not                 *)
EarlyExitInputs ==
    {<<i, o, TRUE>> : i \in Ids, o \in Owners} \cup {<<CommitmentIdStub, "alice", FALSE>>}

TimePoints == {d * SecondsPerDay : d \in 0..MaxDays} \cup {SecondsPerDay - 1}

---------------------------------------------------------------------------
(* Integer arithmetic of Rust: `/` truncates toward zero *)

RustDiv(a, b) ==
    IF a >= 0 THEN a \div b ELSE 0 - ((0 - a) \div b)

---------------------------------------------------------------------------
(* Storage helpers *)

has_commitment(st, commitment_id) == commitment_id \in DOMAIN st

read_commitment(st, commitment_id) == st[commitment_id]

set_commitment(st, commitment) ==
    [k \in DOMAIN st \cup {commitment.commitment_id} |->
        IF k = commitment.commitment_id THEN commitment ELSE st[k]]

---------------------------------------------------------------------------
(* The token contract (soroban token interface): balance and transfer.     *)
(* transfer fails (panics) on a negative amount or an insufficient balance *)

token_balance(b, asset, holder) == b[asset][holder]

(* a transfer that credits the recipient without debiting the sender *)
token_transfer_no_debit(b, asset, from, to, amount) ==
    IF amount < 0 \/ b[asset][from] < amount
    THEN [ok |-> FALSE, bal |-> b]
    ELSE [ok |-> TRUE,
          bal |-> [b EXCEPT ![asset] =
                      [h \in DOMAIN b[asset] |->
                          b[asset][h] + (IF h = to THEN amount ELSE 0)]]]

token_transfer(b, asset, from, to, amount) ==
    IF amount < 0 \/ b[asset][from] < amount
    THEN [ok |-> FALSE, bal |-> b]
    ELSE [ok |-> TRUE,
          bal |-> [b EXCEPT ![asset] =
                      [h \in DOMAIN b[asset] |->
                          b[asset][h] - (IF h = from THEN amount ELSE 0)
                                      + (IF h = to THEN amount ELSE 0)]]]

get_balance(b, asset, address) == token_balance(b, asset, address)

(* Asset transfer helpers: ok = FALSE is a panic *)
transfer_from_user_to_contract(b, asset, from, amount) ==
    IF ~(amount > 0) THEN [ok |-> FALSE, bal |-> b]
    ELSE IF ~(token_balance(b, asset, from) >= amount) THEN [ok |-> FALSE, bal |-> b]
    ELSE token_transfer(b, asset, from, Contract, amount)

transfer_from_contract_to_user(b, asset, to, amount) ==
    IF ~(amount > 0) THEN [ok |-> FALSE, bal |-> b]
    ELSE IF ~(token_balance(b, asset, Contract) >= amount) THEN [ok |-> FALSE, bal |-> b]
    ELSE token_transfer(b, asset, Contract, to, amount)

transfer_from_contract_to_pool(b, asset, pool, amount) ==
    IF ~(amount > 0) THEN [ok |-> FALSE, bal |-> b]
    ELSE IF ~(token_balance(b, asset, Contract) >= amount) THEN [ok |-> FALSE, bal |-> b]
    ELSE token_transfer(b, asset, Contract, pool, amount)

(* "Ok" or the error returned *)
verify_sufficient_balance(b, asset, user, amount) ==
    IF get_balance(b, asset, user) < amount THEN "InsufficientBalance" ELSE "Ok"

---------------------------------------------------------------------------
(* Outcome of an invocation: the value returned and the state it leaves *)

NoDetails == <<FALSE, FALSE, FALSE, 0, 0>>

Outcome(result, st, b, id) ==
    [result |-> result, store |-> st, bal |-> b, retId |-> id]

Failed(result) == Outcome(result, store, bal, "")

Panic == Failed("panic")

---------------------------------------------------------------------------
(* Entry points of CommitmentCoreContract.  Each operator reads the current *)
(* state (store, bal, instance, now) and yields the Outcome of the call.    *)

initialize(admin, nft_contract) ==
    [k \in {"Admin", "NFT"} |-> IF k = "Admin" THEN admin ELSE nft_contract]

(* create_commitment with the amount validated before the rules *)
create_commitment_amount_first(owner, amount, asset_address, rules, auth) ==
    IF ~auth THEN Panic
    ELSE IF amount <= 0 THEN Failed("InvalidAmount")
    ELSE IF rules.duration_days = 0 THEN Failed("InvalidRules")
    ELSE IF rules.max_loss_percent > 100 THEN Failed("InvalidRules")
    ELSE IF verify_sufficient_balance(bal, asset_address, owner, amount) # "Ok"
         THEN Failed(verify_sufficient_balance(bal, asset_address, owner, amount))
    ELSE LET t == transfer_from_user_to_contract(bal, asset_address, owner, amount)
             commitment ==
                 [commitment_id |-> CommitmentIdStub, owner |-> owner, nft_token_id |-> 1,
                  rules |-> rules, amount |-> amount, asset_address |-> asset_address,
                  created_at |-> now,
                  expires_at |-> now + rules.duration_days * 24 * 60 * 60,
                  current_value |-> amount, status |-> "active"]
         IN  IF ~t.ok THEN Panic
             ELSE IF "NFT" \notin DOMAIN instance THEN Panic
             ELSE Outcome("Ok", set_commitment(store, commitment), t.bal, CommitmentIdStub)

(* create_commitment with the duration converted as minutes, not seconds *)
create_commitment_short_day(owner, amount, asset_address, rules, auth) ==
    IF ~auth THEN Panic
    ELSE IF rules.duration_days = 0 THEN Failed("InvalidRules")
    ELSE IF rules.max_loss_percent > 100 THEN Failed("InvalidRules")
    ELSE IF amount <= 0 THEN Failed("InvalidAmount")
    ELSE IF verify_sufficient_balance(bal, asset_address, owner, amount) # "Ok"
         THEN Failed(verify_sufficient_balance(bal, asset_address, owner, amount))
    ELSE LET t == transfer_from_user_to_contract(bal, asset_address, owner, amount)
             commitment ==
                 [commitment_id |-> CommitmentIdStub, owner |-> owner, nft_token_id |-> 1,
                  rules |-> rules, amount |-> amount, asset_address |-> asset_address,
                  created_at |-> now,
                  expires_at |-> now + rules.duration_days * 24 * 60,
                  current_value |-> amount, status |-> "active"]
         IN  IF ~t.ok THEN Panic
             ELSE IF "NFT" \notin DOMAIN instance THEN Panic
             ELSE Outcome("Ok", set_commitment(store, commitment), t.bal, CommitmentIdStub)

create_commitment(owner, amount, asset_address, rules, auth) ==
    IF ~auth THEN Panic                                   \* owner.require_auth()
    ELSE IF rules.duration_days = 0 THEN Failed("InvalidRules")
    ELSE IF rules.max_loss_percent > 100 THEN Failed("InvalidRules")
    ELSE IF amount <= 0 THEN Failed("InvalidAmount")
    ELSE IF verify_sufficient_balance(bal, asset_address, owner, amount) # "Ok"
         THEN Failed(verify_sufficient_balance(bal, asset_address, owner, amount))
    ELSE LET t == transfer_from_user_to_contract(bal, asset_address, owner, amount)
             timestamp == now
             commitment_id == CommitmentIdStub
             duration_seconds == rules.duration_days * 24 * 60 * 60
             expires_at == timestamp + duration_seconds
             nft_token_id == 1
             commitment ==
                 [commitment_id |-> commitment_id,
                  owner |-> owner,
                  nft_token_id |-> nft_token_id,
                  rules |-> rules,
                  amount |-> amount,
                  asset_address |-> asset_address,
                  created_at |-> timestamp,
                  expires_at |-> expires_at,
                  current_value |-> amount,
                  status |-> "active"]
         IN  IF ~t.ok THEN Panic
             ELSE IF "NFT" \notin DOMAIN instance THEN Panic   \* .get(..).unwrap()
             ELSE Outcome("Ok", set_commitment(store, commitment), t.bal, commitment_id)

(* result "panic" when the commitment is absent, else the record *)
get_commitment(commitment_id) ==
    IF ~has_commitment(store, commitment_id)
    THEN [result |-> "panic", found |-> {}]
    ELSE [result |-> "Ok", found |-> {read_commitment(store, commitment_id)}]

(* update_value that writes the new value into the record *)
update_value_stores(commitment_id, new_value) ==
    IF ~has_commitment(store, commitment_id) THEN Outcome("Ok", store, bal, "")
    ELSE Outcome("Ok",
                 set_commitment(store, [read_commitment(store, commitment_id)
                                           EXCEPT !.current_value = new_value]),
                 bal, "")

(* the body is four TODO comments: nothing is read, nothing is written *)
update_value(commitment_id, new_value) == Outcome("Ok", store, bal, "")

(* the loss percentage with the division made before the multiplication *)
loss_percent_of_div_first(commitment) ==
    LET loss_amount == commitment.amount - commitment.current_value
    IN  IF commitment.amount > 0
        THEN RustDiv(loss_amount, commitment.amount) * 100
        ELSE 0

loss_percent_of(commitment) ==
    LET loss_amount == commitment.amount - commitment.current_value
    IN  IF commitment.amount > 0
        THEN RustDiv(loss_amount * 100, commitment.amount)
        ELSE 0

(* check_violations with the loss limit compared by >= *)
check_violations_loss_at_limit(commitment_id) ==
    IF ~has_commitment(store, commitment_id) THEN [result |-> "panic", ret |-> FALSE]
    ELSE LET commitment == read_commitment(store, commitment_id)
             loss_violated == loss_percent_of(commitment) >= commitment.rules.max_loss_percent
             duration_violated == now >= commitment.expires_at
         IN  IF commitment.status # "active" THEN [result |-> "Ok", ret |-> FALSE]
             ELSE [result |-> "Ok", ret |-> (loss_violated \/ duration_violated)]

check_violations(commitment_id) ==
    IF ~has_commitment(store, commitment_id) THEN [result |-> "panic", ret |-> FALSE]
    ELSE LET commitment == read_commitment(store, commitment_id)
             current_time == now
             loss_percent == loss_percent_of(commitment)
             max_loss == commitment.rules.max_loss_percent
             loss_violated == loss_percent > max_loss
             duration_violated == current_time >= commitment.expires_at
         IN  IF commitment.status # "active" THEN [result |-> "Ok", ret |-> FALSE]
             ELSE [result |-> "Ok", ret |-> (loss_violated \/ duration_violated)]

get_violation_details(commitment_id) ==
    IF ~has_commitment(store, commitment_id) THEN [result |-> "panic", ret |-> NoDetails]
    ELSE LET commitment == read_commitment(store, commitment_id)
             current_time == now
             loss_percent == loss_percent_of(commitment)
             max_loss == commitment.rules.max_loss_percent
             loss_violated == loss_percent > max_loss
             duration_violated == current_time >= commitment.expires_at
             time_remaining == IF current_time < commitment.expires_at
                               THEN commitment.expires_at - current_time
                               ELSE 0
             has_violations == loss_violated \/ duration_violated
         IN  [result |-> "Ok",
              ret |-> <<has_violations, loss_violated, duration_violated,
                        loss_percent, time_remaining>>]

(* settle that also clears the principal of the record it settles *)
settle_clears_amount(commitment_id) ==
    IF ~has_commitment(store, commitment_id) THEN Failed("NotFound")
    ELSE LET commitment == read_commitment(store, commitment_id)
             settlement_amount == commitment.current_value
             t == IF settlement_amount > 0
                  THEN transfer_from_contract_to_user(bal, commitment.asset_address,
                                                      commitment.owner, settlement_amount)
                  ELSE [ok |-> TRUE, bal |-> bal]
         IN  IF now < commitment.expires_at THEN Failed("NotExpired")
             ELSE IF commitment.status # "active" THEN Failed("AlreadySettled")
             ELSE IF ~t.ok THEN Panic
             ELSE Outcome("Ok",
                          set_commitment(store, [commitment EXCEPT !.status = "settled",
                                                                   !.amount = 0]),
                          t.bal, "")

(* settle with the maturity test made against created_at *)
settle_from_creation(commitment_id) ==
    IF ~has_commitment(store, commitment_id) THEN Failed("NotFound")
    ELSE LET commitment == read_commitment(store, commitment_id)
             settlement_amount == commitment.current_value
             t == IF settlement_amount > 0
                  THEN transfer_from_contract_to_user(bal, commitment.asset_address,
                                                      commitment.owner, settlement_amount)
                  ELSE [ok |-> TRUE, bal |-> bal]
         IN  IF now < commitment.created_at THEN Failed("NotExpired")
             ELSE IF commitment.status # "active" THEN Failed("AlreadySettled")
             ELSE IF ~t.ok THEN Panic
             ELSE Outcome("Ok",
                          set_commitment(store, [commitment EXCEPT !.status = "settled"]),
                          t.bal, "")

(* settle with the early-exit penalty deducted from the payout *)
settle_with_penalty(commitment_id) ==
    IF ~has_commitment(store, commitment_id) THEN Failed("NotFound")
    ELSE LET commitment == read_commitment(store, commitment_id)
             settlement_amount ==
                 commitment.current_value
                    - RustDiv(commitment.current_value * commitment.rules.early_exit_penalty, 100)
             t == IF settlement_amount > 0
                  THEN transfer_from_contract_to_user(bal, commitment.asset_address,
                                                      commitment.owner, settlement_amount)
                  ELSE [ok |-> TRUE, bal |-> bal]
         IN  IF now < commitment.expires_at THEN Failed("NotExpired")
             ELSE IF commitment.status # "active" THEN Failed("AlreadySettled")
             ELSE IF ~t.ok THEN Panic
             ELSE Outcome("Ok",
                          set_commitment(store, [commitment EXCEPT !.status = "settled"]),
                          t.bal, "")

(* settle without the test of the status *)
settle_no_status_check(commitment_id) ==
    IF ~has_commitment(store, commitment_id) THEN Failed("NotFound")
    ELSE LET commitment == read_commitment(store, commitment_id)
             settlement_amount == commitment.current_value
             t == IF settlement_amount > 0
                  THEN transfer_from_contract_to_user(bal, commitment.asset_address,
                                                      commitment.owner, settlement_amount)
                  ELSE [ok |-> TRUE, bal |-> bal]
         IN  IF now < commitment.expires_at THEN Failed("NotExpired")
             ELSE IF ~t.ok THEN Panic
             ELSE Outcome("Ok",
                          set_commitment(store, [commitment EXCEPT !.status = "settled"]),
                          t.bal, "")

settle(commitment_id) ==
    IF ~has_commitment(store, commitment_id) THEN Failed("NotFound")
    ELSE LET commitment == read_commitment(store, commitment_id)
             current_time == now
             settlement_amount == commitment.current_value
             t == IF settlement_amount > 0
                  THEN transfer_from_contract_to_user(bal, commitment.asset_address,
                                                      commitment.owner, settlement_amount)
                  ELSE [ok |-> TRUE, bal |-> bal]
         IN  IF current_time < commitment.expires_at THEN Failed("NotExpired")
             ELSE IF commitment.status # "active" THEN Failed("AlreadySettled")
             ELSE IF ~t.ok THEN Panic
             ELSE Outcome("Ok",
                          set_commitment(store, [commitment EXCEPT !.status = "settled"]),
                          t.bal, "")

(* early_exit paying the penalty to the owner and keeping the remainder *)
early_exit_pays_penalty(commitment_id, caller, auth) ==
    IF ~auth THEN Panic
    ELSE IF ~has_commitment(store, commitment_id) THEN Failed("NotFound")
    ELSE LET commitment == read_commitment(store, commitment_id)
             penalty_amount ==
                 RustDiv(commitment.current_value * commitment.rules.early_exit_penalty, 100)
             t == IF penalty_amount > 0
                  THEN transfer_from_contract_to_user(bal, commitment.asset_address,
                                                      commitment.owner, penalty_amount)
                  ELSE [ok |-> TRUE, bal |-> bal]
         IN  IF caller # commitment.owner THEN Failed("Unauthorized")
             ELSE IF commitment.status # "active" THEN Failed("AlreadySettled")
             ELSE IF ~t.ok THEN Panic
             ELSE Outcome("Ok",
                          set_commitment(store, [commitment EXCEPT !.status = "early_exit"]),
                          t.bal, "")

(* early_exit with the status tested before the caller *)
early_exit_status_first(commitment_id, caller, auth) ==
    IF ~auth THEN Panic
    ELSE IF ~has_commitment(store, commitment_id) THEN Failed("NotFound")
    ELSE LET commitment == read_commitment(store, commitment_id)
             penalty_amount ==
                 RustDiv(commitment.current_value * commitment.rules.early_exit_penalty, 100)
             remaining_amount == commitment.current_value - penalty_amount
             t == IF remaining_amount > 0
                  THEN transfer_from_contract_to_user(bal, commitment.asset_address,
                                                      commitment.owner, remaining_amount)
                  ELSE [ok |-> TRUE, bal |-> bal]
         IN  IF commitment.status # "active" THEN Failed("AlreadySettled")
             ELSE IF caller # commitment.owner THEN Failed("Unauthorized")
             ELSE IF ~t.ok THEN Panic
             ELSE Outcome("Ok",
                          set_commitment(store, [commitment EXCEPT !.status = "early_exit"]),
                          t.bal, "")

early_exit(commitment_id, caller, auth) ==
    IF ~auth THEN Panic                                   \* caller.require_auth()
    ELSE IF ~has_commitment(store, commitment_id) THEN Failed("NotFound")
    ELSE LET commitment == read_commitment(store, commitment_id)
             penalty_percent == commitment.rules.early_exit_penalty
             penalty_amount == RustDiv(commitment.current_value * penalty_percent, 100)
             remaining_amount == commitment.current_value - penalty_amount
             t == IF remaining_amount > 0
                  THEN transfer_from_contract_to_user(bal, commitment.asset_address,
                                                      commitment.owner, remaining_amount)
                  ELSE [ok |-> TRUE, bal |-> bal]
         IN  IF caller # commitment.owner THEN Failed("Unauthorized")
             ELSE IF commitment.status # "active" THEN Failed("AlreadySettled")
             ELSE IF ~t.ok THEN Panic
             ELSE Outcome("Ok",
                          set_commitment(store, [commitment EXCEPT !.status = "early_exit"]),
                          t.bal, "")

(* allocate answering AlreadySettled for a commitment that is not stored *)
allocate_missing_as_settled(commitment_id, target_pool, amount) ==
    IF ~has_commitment(store, commitment_id) THEN Failed("AlreadySettled")
    ELSE LET commitment == read_commitment(store, commitment_id)
             t == transfer_from_contract_to_pool(bal, commitment.asset_address,
                                                 target_pool, amount)
         IN  IF commitment.status # "active" THEN Failed("AlreadySettled")
             ELSE IF ~t.ok THEN Panic
             ELSE Outcome("Ok", store, t.bal, "")

(* allocate without the test of the status *)
allocate_no_status_check(commitment_id, target_pool, amount) ==
    IF ~has_commitment(store, commitment_id) THEN Failed("NotFound")
    ELSE LET commitment == read_commitment(store, commitment_id)
             t == transfer_from_contract_to_pool(bal, commitment.asset_address,
                                                 target_pool, amount)
         IN  IF ~t.ok THEN Panic
             ELSE Outcome("Ok", store, t.bal, "")

allocate(commitment_id, target_pool, amount) ==
    IF ~has_commitment(store, commitment_id) THEN Failed("NotFound")
    ELSE LET commitment == read_commitment(store, commitment_id)
             t == transfer_from_contract_to_pool(bal, commitment.asset_address,
                                                 target_pool, amount)
         IN  IF commitment.status # "active" THEN Failed("AlreadySettled")
             ELSE IF ~t.ok THEN Panic
             ELSE Outcome("Ok", store, t.bal, "")

---------------------------------------------------------------------------
(* The state machine *)

(* HealthMetrics of the engine, all zero where a call returns none *)
NoMetrics ==
    [current_value |-> 0, initial_value |-> 0, drawdown_percent |-> 0,
     fees_generated |-> 0, volatility_exposure |-> 0, last_attestation |-> 0,
     compliance_score |-> 0]

(* retScore, retMetrics and retLog are what the engine's calls return *)
Call(op, id, who, amount, asset, rules, auth, result, retId, retBool, retDetails) ==
    [op |-> op, id |-> id, who |-> who, amount |-> amount, asset |-> asset,
     rules |-> rules, auth |-> auth, result |-> result, retId |-> retId,
     retBool |-> retBool, retDetails |-> retDetails,
     retScore |-> 0, retMetrics |-> NoMetrics, retLog |-> <<>>, kind |-> ""]

NoCall(op) == Call(op, "", NoAddress, 0, NoAddress, NoRules, TRUE, "Ok", "", FALSE, NoDetails)

Init ==
    /\ store = [k \in {} |-> NoRules]
    /\ bal = [a \in Assets |-> [h \in Holders |-> IF h = "alice" THEN InitialBalance
                                             ELSE IF h = "bob" THEN SmallBalance ELSE 0]]
    /\ instance = [k \in {} |-> NoAddress]
    /\ now = 0
    /\ ncreated = 0
    /\ call = NoCall("deploy")
    /\ fees = [k \in {} |-> 0]
    /\ violations = [k \in {} |-> FALSE]
    /\ attestations = [k \in {} |-> <<>>]

Initialize ==
    /\ instance' = initialize("admin", "nft")
    /\ call' = NoCall("initialize")
    /\ UNCHANGED <<store, bal, now, ncreated, fees, violations, attestations>>

CreateCommitment ==
    \E args \in CreateInputs :
        LET owner == args[1]
            amount == args[2]
            asset == args[3]
            rules == args[4]
            auth == args[5]
            r == create_commitment(owner, amount, asset, rules, auth)
        IN  /\ r.result = "Ok" => ncreated < MaxCreates
            /\ store' = r.store
            /\ bal' = r.bal
            /\ ncreated' = IF r.result = "Ok" THEN ncreated + 1 ELSE ncreated
            /\ call' = Call("create_commitment", "", owner, amount, asset, rules, auth,
                            r.result, r.retId, FALSE, NoDetails)
            /\ UNCHANGED <<instance, now, fees, violations, attestations>>

GetCommitment ==
    \E id \in Ids :
        /\ call' = Call("get_commitment", id, NoAddress, 0, NoAddress, NoRules, TRUE,
                        get_commitment(id).result, "", FALSE, NoDetails)
        /\ UNCHANGED <<store, bal, instance, now, ncreated, fees, violations, attestations>>

UpdateValue ==
    \E id \in Ids, new_value \in ValueInputs :
        LET r == update_value(id, new_value)
        IN  /\ store' = r.store
            /\ bal' = r.bal
            /\ call' = Call("update_value", id, NoAddress, new_value, NoAddress, NoRules,
                            TRUE, r.result, "", FALSE, NoDetails)
            /\ UNCHANGED <<instance, now, ncreated, fees, violations, attestations>>

(* check_violations that records a detected violation in the status *)
CheckViolationsMarking ==
    \E id \in Ids :
        /\ call' = Call("check_violations", id, NoAddress, 0, NoAddress, NoRules, TRUE,
                        check_violations(id).result, "", check_violations(id).ret, NoDetails)
        /\ store' = IF check_violations(id).ret
                    THEN [store EXCEPT ![id].status = "violated"]
                    ELSE store
        /\ UNCHANGED <<bal, instance, now, ncreated, fees, violations, attestations>>

CheckViolations ==
    \E id \in Ids :
        /\ call' = Call("check_violations", id, NoAddress, 0, NoAddress, NoRules, TRUE,
                        check_violations(id).result, "", check_violations(id).ret, NoDetails)
        /\ UNCHANGED <<store, bal, instance, now, ncreated, fees, violations, attestations>>

GetViolationDetails ==
    \E id \in Ids :
        /\ call' = Call("get_violation_details", id, NoAddress, 0, NoAddress, NoRules, TRUE,
                        get_violation_details(id).result, "", FALSE,
                        get_violation_details(id).ret)
        /\ UNCHANGED <<store, bal, instance, now, ncreated, fees, violations, attestations>>

Settle ==
    \E id \in Ids :
        LET r == settle(id)
        IN  /\ store' = r.store
            /\ bal' = r.bal
            /\ call' = Call("settle", id, NoAddress, 0, NoAddress, NoRules, TRUE,
                            r.result, "", FALSE, NoDetails)
            /\ UNCHANGED <<instance, now, ncreated, fees, violations, attestations>>

EarlyExit ==
    \E args \in EarlyExitInputs :
        LET id == args[1]
            caller == args[2]
            auth == args[3]
            r == early_exit(id, caller, auth)
        IN  /\ store' = r.store
            /\ bal' = r.bal
            /\ call' = Call("early_exit", id, caller, 0, NoAddress, NoRules, auth,
                            r.result, "", FALSE, NoDetails)
            /\ UNCHANGED <<instance, now, ncreated, fees, violations, attestations>>

Allocate ==
    \E id \in Ids, target_pool \in Pools, amount \in AllocateInputs :
        LET r == allocate(id, target_pool, amount)
        IN  /\ store' = r.store
            /\ bal' = r.bal
            /\ call' = Call("allocate", id, target_pool, amount, NoAddress, NoRules, TRUE,
                            r.result, "", FALSE, NoDetails)
            /\ UNCHANGED <<instance, now, ncreated, fees, violations, attestations>>

(* the ledger closes: the timestamp moves forward *)
Tick ==
    \E t \in TimePoints :
        /\ t > now
        /\ now' = t
        /\ call' = NoCall("tick")
        /\ UNCHANGED <<store, bal, instance, ncreated, fees, violations, attestations>>

Next ==
    \/ Initialize
    \/ CreateCommitment
    \/ GetCommitment
    \/ UpdateValue
    \/ CheckViolations
    \/ GetViolationDetails
    \/ Settle
    \/ EarlyExit
    \/ Allocate
    \/ Tick

Spec == Init /\ [][Next]_vars

---------------------------------------------------------------------------
(* Compliance Engine (contracts/attestation_engine).  Its tests seed the    *)
(* core contract's storage directly with a record of their choice           *)
(* (store_core_commitment, MockCoreContract::set_commitment) and set what   *)
(* the core reports as violations (MockCoreContract::set_violations); the   *)
(* engine then reads the core and writes only its own storage.              *)

MaxFees == 200

(* the amount the tests record, and a negative amount *)
FeeInputs == {100, -100}

Admin == "admin"

EngineCallers == {Admin, "alice"}

(* the record store_core_commitment builds, with the fields its callers vary *)
SeedCommitment(amount, current_value, max_loss_percent, duration_days, min_fee, status) ==
    [commitment_id |-> CommitmentIdStub,
     owner |-> "alice",
     nft_token_id |-> 1,
     rules |-> [duration_days |-> duration_days,
                max_loss_percent |-> max_loss_percent,
                commitment_type |-> "balanced",
                early_exit_penalty |-> 10,
                min_fee_threshold |-> min_fee],
     amount |-> amount,
     asset_address |-> "tokenA",
     created_at |-> 0,
     expires_at |-> 0 + duration_days * 86400,
     current_value |-> current_value,
     status |-> status]

SeedValues == {<<1000, 1000>>, <<1000, 900>>, <<1000, 700>>, <<0, 0>>}

SeedCommitments ==
    {SeedCommitment(v[1], v[2], m, d, f, st) :
        v \in SeedValues, m \in {9, 10, 20, 29, 30}, d \in {0, 1}, f \in {0, 100},
        st \in {"active", "settled", "early_exit"}}

(* accumulated fees of a commitment, 0 when none were recorded *)
fees_of(commitment_id) ==
    IF commitment_id \in DOMAIN fees THEN fees[commitment_id] ELSE 0

(* the new fee accumulator; only the administrator may record fees *)
record_fees(commitment_id, amount, caller) ==
    IF caller # Admin THEN [result |-> "Unauthorized", fees |-> fees]
    ELSE [result |-> "Ok",
          fees |-> [k \in DOMAIN fees \cup {commitment_id} |->
                       IF k = commitment_id THEN fees_of(commitment_id) + amount
                       ELSE fees[k]]]

drawdown_percent_of(commitment) ==
    IF commitment.amount = 0 THEN 0
    ELSE RustDiv((commitment.amount - commitment.current_value) * 100, commitment.amount)

(* verify_compliance without the duration_days = 0 sentinel *)
verify_compliance_no_sentinel(commitment_id) ==
    IF ~has_commitment(store, commitment_id) THEN [result |-> "panic", ret |-> FALSE]
    ELSE LET commitment == read_commitment(store, commitment_id)
         IN  IF drawdown_percent_of(commitment) > commitment.rules.max_loss_percent
             THEN [result |-> "Ok", ret |-> FALSE]
             ELSE IF now >= commitment.expires_at
             THEN [result |-> "Ok", ret |-> FALSE]
             ELSE IF fees_of(commitment_id) < commitment.rules.min_fee_threshold
             THEN [result |-> "Ok", ret |-> FALSE]
             ELSE IF violations[commitment_id]
             THEN [result |-> "Ok", ret |-> FALSE]
             ELSE [result |-> "Ok", ret |-> TRUE]

verify_compliance(commitment_id) ==
    IF ~has_commitment(store, commitment_id) THEN [result |-> "panic", ret |-> FALSE]
    ELSE LET commitment == read_commitment(store, commitment_id)
         IN  IF drawdown_percent_of(commitment) > commitment.rules.max_loss_percent
             THEN [result |-> "Ok", ret |-> FALSE]
             ELSE IF commitment.rules.duration_days # 0 /\ now >= commitment.expires_at
             THEN [result |-> "Ok", ret |-> FALSE]
             ELSE IF fees_of(commitment_id) < commitment.rules.min_fee_threshold
             THEN [result |-> "Ok", ret |-> FALSE]
             ELSE IF violations[commitment_id]
             THEN [result |-> "Ok", ret |-> FALSE]
             ELSE [result |-> "Ok", ret |-> TRUE]

EngineInit ==
    /\ \E c \in SeedCommitments : store = [k \in {CommitmentIdStub} |-> c]
    /\ bal = [a \in Assets |-> [h \in Holders |-> IF h = "alice" THEN InitialBalance
                                             ELSE IF h = "bob" THEN SmallBalance ELSE 0]]
    /\ instance = initialize(Admin, "nft")
    /\ now = 0
    /\ ncreated = 0
    /\ call = NoCall("deploy")
    /\ fees = [k \in {} |-> 0]
    /\ violations \in [{CommitmentIdStub} -> BOOLEAN]
    /\ attestations = [k \in {} |-> <<>>]

RecordFees ==
    \E id \in {CommitmentIdStub}, amount \in FeeInputs, caller \in EngineCallers :
        LET r == record_fees(id, amount, caller)
        IN  /\ r.result = "Ok" => fees_of(id) + amount <= MaxFees
            /\ r.result = "Ok" => \E a \in FeeInputs : fees_of(id) + amount >= a
            /\ fees' = r.fees
            /\ call' = Call("record_fees", id, caller, amount, NoAddress, NoRules, TRUE,
                            r.result, "", FALSE, NoDetails)
            /\ UNCHANGED <<store, bal, instance, now, ncreated, violations, attestations>>

VerifyCompliance ==
    \E id \in Ids :
        /\ call' = Call("verify_compliance", id, NoAddress, 0, NoAddress, NoRules, TRUE,
                        verify_compliance(id).result, "", verify_compliance(id).ret, NoDetails)
        /\ UNCHANGED <<store, bal, instance, now, ncreated, fees, violations, attestations>>

EngineNext ==
    \/ RecordFees
    \/ VerifyCompliance
    \/ GetCommitment
    \/ CheckViolations
    \/ GetViolationDetails
    \/ Tick

EngineSpec == EngineInit /\ [][EngineNext]_vars

---------------------------------------------------------------------------
(* Compliance Engine: attestation log, compliance score and health metrics *)

MaxAttestations == 2

(* weights of the score: the penalty at a drawdown equal to the loss limit, *)
(* the penalty for fees below the threshold, the penalty for violations    *)
DrawdownWeight == 50

FeePenalty == 10

ViolationPenalty == 20

AttestationTypes == {"general", "health_check"}

(* attest is called with both types on the seeded commitment and with one  *)
(* type on an id under which the core stores nothing                       *)
AttestInputs ==
    {<<CommitmentIdStub, t>> : t \in AttestationTypes} \cup {<<"commitment_2", "general">>}

(* what the core reports for an id: no violations unless set otherwise *)
violations_of(commitment_id) ==
    IF commitment_id \in DOMAIN violations THEN violations[commitment_id] ELSE FALSE

(* the stored sequence, empty when nothing was attested *)
get_attestations(commitment_id) ==
    IF commitment_id \in DOMAIN attestations THEN attestations[commitment_id] ELSE <<>>

TotalAttestations ==
    LET RECURSIVE Sum(_)
        Sum(S) == IF S = {} THEN 0
                  ELSE LET k == CHOOSE x \in S : TRUE
                       IN  Len(attestations[k]) + Sum(S \ {k})
    IN  Sum(DOMAIN attestations)

(* attest that puts the new record first *)
attest_prepend(commitment_id, attestation_type, data, verified_by) ==
    LET passed == ~violations_of(commitment_id)
        attestation == [attestation_type |-> attestation_type, data |-> data,
                        verified_by |-> verified_by, timestamp |-> now, passed |-> passed]
    IN  [k \in DOMAIN attestations \cup {commitment_id} |->
            IF k = commitment_id
            THEN <<attestation>> \o get_attestations(commitment_id)
            ELSE attestations[k]]

(* the new attestation storage *)
attest(commitment_id, attestation_type, data, verified_by) ==
    LET passed == ~violations_of(commitment_id)
        attestation == [attestation_type |-> attestation_type, data |-> data,
                        verified_by |-> verified_by, timestamp |-> now, passed |-> passed]
    IN  [k \in DOMAIN attestations \cup {commitment_id} |->
            IF k = commitment_id
            THEN Append(get_attestations(commitment_id), attestation)
            ELSE attestations[k]]

clamp_score(score) ==
    IF score < 0 THEN 0 ELSE IF score > 100 THEN 100 ELSE score

(* the score before it is clamped into 0..100 *)
raw_score(commitment_id) ==
    LET commitment == read_commitment(store, commitment_id)
        drawdown_percent == drawdown_percent_of(commitment)
        max_loss == commitment.rules.max_loss_percent
        drawdown_penalty == IF max_loss = 0 THEN drawdown_percent * DrawdownWeight
                            ELSE RustDiv(drawdown_percent * DrawdownWeight, max_loss)
        fee_penalty == IF fees_of(commitment_id) < commitment.rules.min_fee_threshold
                       THEN FeePenalty ELSE 0
        violation_penalty == IF violations_of(commitment_id) THEN ViolationPenalty ELSE 0
    IN  100 - drawdown_penalty - fee_penalty - violation_penalty

(* calculate_compliance_score returning the score as computed, not clamped *)
calculate_compliance_score_unclamped(commitment_id) ==
    IF ~has_commitment(store, commitment_id) THEN [result |-> "panic", ret |-> 0]
    ELSE [result |-> "Ok", ret |-> raw_score(commitment_id)]

calculate_compliance_score(commitment_id) ==
    IF ~has_commitment(store, commitment_id) THEN [result |-> "panic", ret |-> 0]
    ELSE [result |-> "Ok", ret |-> clamp_score(raw_score(commitment_id))]

(* get_health_metrics reporting the first attestation as the last one *)
get_health_metrics_first_attestation(commitment_id) ==
    IF ~has_commitment(store, commitment_id) THEN [result |-> "panic", ret |-> NoMetrics]
    ELSE LET commitment == read_commitment(store, commitment_id)
             log == get_attestations(commitment_id)
         IN  [result |-> "Ok",
              ret |-> [current_value |-> commitment.current_value,
                       initial_value |-> commitment.amount,
                       drawdown_percent |-> drawdown_percent_of(commitment),
                       fees_generated |-> fees_of(commitment_id),
                       volatility_exposure |-> 0,
                       last_attestation |-> IF Len(log) = 0 THEN 0 ELSE log[1].timestamp,
                       compliance_score |-> calculate_compliance_score(commitment_id).ret]]

get_health_metrics(commitment_id) ==
    IF ~has_commitment(store, commitment_id) THEN [result |-> "panic", ret |-> NoMetrics]
    ELSE LET commitment == read_commitment(store, commitment_id)
             log == get_attestations(commitment_id)
         IN  [result |-> "Ok",
              ret |-> [current_value |-> commitment.current_value,
                       initial_value |-> commitment.amount,
                       drawdown_percent |-> drawdown_percent_of(commitment),
                       fees_generated |-> fees_of(commitment_id),
                       volatility_exposure |-> 0,
                       last_attestation |-> IF Len(log) = 0 THEN 0
                                            ELSE log[Len(log)].timestamp,
                       compliance_score |-> calculate_compliance_score(commitment_id).ret]]

(* the records the metrics are computed from: a gain, no loss, a loss at the *)
(* limit, a loss above 100 percent, and a commitment of amount 0            *)
MetricsValues == {<<1000, 1100>>, <<1000, 1000>>, <<1000, 900>>, <<1000, -100>>, <<0, 0>>}

MetricsSeeds ==
    {SeedCommitment(v[1], v[2], 10, 1, 100, "active") : v \in MetricsValues}

MetricsInit ==
    /\ \E c \in MetricsSeeds : store = [k \in {CommitmentIdStub} |-> c]
    /\ bal = [a \in Assets |-> [h \in Holders |-> IF h = "alice" THEN InitialBalance
                                             ELSE IF h = "bob" THEN SmallBalance ELSE 0]]
    /\ instance = initialize(Admin, "nft")
    /\ now = 0
    /\ ncreated = 0
    /\ call = NoCall("deploy")
    /\ fees = [k \in {} |-> 0]
    /\ violations \in [{CommitmentIdStub} -> BOOLEAN]
    /\ attestations = [k \in {} |-> <<>>]

Attest ==
    \E args \in AttestInputs :
        LET id == args[1]
            attestation_type == args[2]
        IN  /\ TotalAttestations < MaxAttestations
            /\ attestations' = attest(id, attestation_type, "note", Admin)
            /\ call' = [NoCall("attest") EXCEPT !.id = id, !.who = Admin,
                                                !.kind = attestation_type]
            /\ UNCHANGED <<store, bal, instance, now, ncreated, fees, violations>>

GetAttestations ==
    \E id \in Ids :
        /\ call' = [NoCall("get_attestations") EXCEPT !.id = id,
                                                      !.retLog = get_attestations(id)]
        /\ UNCHANGED <<store, bal, instance, now, ncreated, fees, violations, attestations>>

CalculateComplianceScore ==
    \E id \in Ids :
        /\ call' = [NoCall("calculate_compliance_score") EXCEPT
                        !.id = id,
                        !.result = calculate_compliance_score(id).result,
                        !.retScore = calculate_compliance_score(id).ret]
        /\ UNCHANGED <<store, bal, instance, now, ncreated, fees, violations, attestations>>

GetHealthMetrics ==
    \E id \in Ids :
        /\ call' = [NoCall("get_health_metrics") EXCEPT
                        !.id = id,
                        !.result = get_health_metrics(id).result,
                        !.retMetrics = get_health_metrics(id).ret]
        /\ UNCHANGED <<store, bal, instance, now, ncreated, fees, violations, attestations>>

MetricsNext ==
    \/ Attest
    \/ GetAttestations
    \/ RecordFees
    \/ CalculateComplianceScore
    \/ GetHealthMetrics
    \/ Tick

MetricsSpec == MetricsInit /\ [][MetricsNext]_vars

---------------------------------------------------------------------------
(* Properties.  A step is identified by the invocation it records in call'; *)
(* unprimed store, bal and now are the state the invocation started from.   *)

Stored(id) == id \in DOMAIN store

Terminal(id) == Stored(id) /\ store[id].status \in {"settled", "early_exit"}

(* every balance other than those of the holders in hs is unchanged *)
OthersUnchanged(asset, hs) ==
    \A a \in Assets, h \in Holders :
        (a # asset \/ h \notin hs) => bal'[a][h] = bal[a][h]

(* C1: a successful create_commitment returns an id under which no          *)
(* commitment is stored yet, so it differs from every id returned before    *)
(* and overwrites no record.                                                *)
C1_FreshId ==
    [][(call'.op = "create_commitment" /\ call'.result = "Ok")
          => ~Stored(call'.retId)]_vars

(* C2: once a settle or an early_exit has succeeded on a commitment, every  *)
(* later settle, and every later early_exit by the owner, on that id        *)
(* returns AlreadySettled at any ledger time.                               *)
C2_SecondCallAlreadySettled ==
    [][(/\ Terminal(call'.id)
        /\ \/ call'.op = "settle"
           \/ /\ call'.op = "early_exit"
              /\ call'.auth
              /\ call'.who = store[call'.id].owner)
          => call'.result = "AlreadySettled"]_vars

(* C3: the status stored under an id changes only from active to settled or *)
(* to early_exit, never changes once it is not active, and is never         *)
(* "violated".                                                              *)
C3_StatusForwardOnly ==
    [][\A id \in Ids :
          /\ (Stored(id) /\ id \in DOMAIN store' /\ store'[id].status # store[id].status)
                => (store[id].status = "active"
                    /\ store'[id].status \in {"settled", "early_exit"})
          /\ (id \in DOMAIN store') => store'[id].status # "violated"]_vars

(* C4: settle on an active commitment before expires_at returns NotExpired  *)
(* and leaves the records and all balances as they were; a settle that      *)
(* succeeds was called at now >= expires_at.                                *)
C4_SettleNotExpired ==
    [][call'.op = "settle" =>
          /\ (Stored(call'.id) /\ store[call'.id].status = "active"
                /\ now < store[call'.id].expires_at)
                => (call'.result = "NotExpired" /\ store' = store /\ bal' = bal)
          /\ call'.result = "Ok" => now >= store[call'.id].expires_at]_vars

C4_Witness ==
    /\ call.op = "settle"
    /\ call.result = "NotExpired"
    /\ store[call.id].status = "active"
    /\ bal[store[call.id].asset_address][Contract] >= store[call.id].current_value

(* C5: a successful settle of a commitment with current_value > 0 credits   *)
(* the owner with exactly current_value of the commitment's asset, debits   *)
(* the escrow by the same amount, moves no other balance, sets status to    *)
(* settled and changes no other field and no other record.                  *)
C5_SettlePaysCurrentValue ==
    [][(call'.op = "settle" /\ call'.result = "Ok" /\ store[call'.id].current_value > 0)
          => LET c == store[call'.id]
             IN  /\ bal'[c.asset_address][c.owner] =
                        bal[c.asset_address][c.owner] + c.current_value
                 /\ bal'[c.asset_address][Contract] =
                        bal[c.asset_address][Contract] - c.current_value
                 /\ OthersUnchanged(c.asset_address, {c.owner, Contract})
                 /\ store' = [store EXCEPT ![call'.id] = [c EXCEPT !.status = "settled"]]]_vars

C5_Witness ==
    /\ call.op = "settle"
    /\ call.result = "Ok"
    /\ store[call.id].status = "settled"
    /\ store[call.id].current_value > 0
    /\ store[call.id].rules.early_exit_penalty > 0

(* C6: a successful early_exit pays the owner remaining = current_value -   *)
(* floor(current_value * early_exit_penalty / 100) when that is positive    *)
(* and nothing otherwise, debits the escrow by what it paid (the penalty is *)
(* transferred to nobody), and sets status to early_exit; current_value =   *)
(* 1000 with a penalty of 10 keeps 100 and pays 900.                        *)
C6_EarlyExitArithmetic ==
    [][(call'.op = "early_exit" /\ call'.result = "Ok")
          => LET c == store[call'.id]
                 penalty_amount == (c.current_value * c.rules.early_exit_penalty) \div 100
                 remaining == c.current_value - penalty_amount
                 paid == IF remaining > 0 THEN remaining ELSE 0
             IN  /\ bal'[c.asset_address][c.owner] = bal[c.asset_address][c.owner] + paid
                 /\ bal'[c.asset_address][Contract] = bal[c.asset_address][Contract] - paid
                 /\ OthersUnchanged(c.asset_address, {c.owner, Contract})
                 /\ store' = [store EXCEPT ![call'.id] = [c EXCEPT !.status = "early_exit"]]
                 /\ (c.current_value = 1000 /\ c.rules.early_exit_penalty = 10)
                       => /\ penalty_amount = 100
                          /\ bal'[c.asset_address][c.owner] =
                                 bal[c.asset_address][c.owner] + 900
                          /\ bal'[c.asset_address][Contract] =
                                 bal[c.asset_address][Contract] - 900]_vars

C6_Witness ==
    /\ call.op = "early_exit"
    /\ call.result = "Ok"
    /\ store[call.id].status = "early_exit"
    /\ store[call.id].current_value = 1000
    /\ store[call.id].rules.early_exit_penalty = 10
    /\ bal[store[call.id].asset_address][Contract] = 100

(* C7: early_exit by an authenticated caller that is not the owner returns  *)
(* Unauthorized and changes no record and no balance, also when the         *)
(* commitment is no longer active.                                          *)
C7_NonOwnerUnauthorized ==
    [][(/\ call'.op = "early_exit"
        /\ call'.auth
        /\ Stored(call'.id)
        /\ call'.who # store[call'.id].owner)
          => (call'.result = "Unauthorized" /\ store' = store /\ bal' = bal)]_vars

C7_Witness ==
    /\ call.op = "early_exit"
    /\ call.result = "Unauthorized"
    /\ call.who # store[call.id].owner
    /\ store[call.id].status # "active"

(* C8: a successful create_commitment(owner, amount, asset, rules) stores a *)
(* record with status active, current_value = amount, created_at = now and  *)
(* expires_at = created_at + duration_days * 86400, and moves exactly       *)
(* amount of the asset from the owner to the escrow.                        *)
C8_CreatePersists ==
    [][(call'.op = "create_commitment" /\ call'.result = "Ok")
          => LET c == store'[call'.retId]
             IN  /\ call'.retId \in DOMAIN store'
                 /\ c.status = "active"
                 /\ c.owner = call'.who
                 /\ c.amount = call'.amount
                 /\ c.asset_address = call'.asset
                 /\ c.rules = call'.rules
                 /\ c.current_value = call'.amount
                 /\ c.created_at = now
                 /\ c.expires_at = c.created_at + call'.rules.duration_days * SecondsPerDay
                 /\ bal'[call'.asset][call'.who] = bal[call'.asset][call'.who] - call'.amount
                 /\ bal'[call'.asset][Contract] = bal[call'.asset][Contract] + call'.amount
                 /\ OthersUnchanged(call'.asset, {call'.who, Contract})]_vars

C8_Witness ==
    /\ call.op = "create_commitment"
    /\ call.result = "Ok"
    /\ store[call.retId].created_at > 0
    /\ store[call.retId].expires_at = now + 2 * SecondsPerDay

(* C9: an authorised create_commitment returns InvalidRules when            *)
(* duration_days = 0 or max_loss_percent > 100, otherwise InvalidAmount     *)
(* when amount <= 0, otherwise InsufficientBalance when the owner's balance *)
(* is below amount; a call that returns one of these writes no record and   *)
(* changes no balance.                                                      *)
C9_CreateErrorOrder ==
    [][(call'.op = "create_commitment" /\ call'.auth)
          => /\ (call'.rules.duration_days = 0 \/ call'.rules.max_loss_percent > 100)
                   => call'.result = "InvalidRules"
             /\ (/\ ~(call'.rules.duration_days = 0 \/ call'.rules.max_loss_percent > 100)
                 /\ call'.amount <= 0)
                   => call'.result = "InvalidAmount"
             /\ (/\ ~(call'.rules.duration_days = 0 \/ call'.rules.max_loss_percent > 100)
                 /\ call'.amount > 0
                 /\ bal[call'.asset][call'.who] < call'.amount)
                   => call'.result = "InsufficientBalance"
             /\ call'.result \in {"InvalidRules", "InvalidAmount", "InsufficientBalance"}
                   => (store' = store /\ bal' = bal)]_vars

C9_Witness ==
    /\ call.op = "create_commitment"
    /\ call.result = "InvalidRules"
    /\ call.amount <= 0
    /\ Stored(CommitmentIdStub)

(* C10: in the state a successful create_commitment leaves, at the ledger   *)
(* time of the create, check_violations on the new commitment returns       *)
(* false.                                                                   *)
C10_FreshNotViolated ==
    (call.op = "create_commitment" /\ call.result = "Ok")
        => check_violations(call.retId) = [result |-> "Ok", ret |-> FALSE]

C10_Witness ==
    /\ call.op = "create_commitment"
    /\ call.result = "Ok"
    /\ store[call.retId].rules.max_loss_percent = 0
    /\ store[call.retId].created_at = now

(* C11: check_violations returns false for a commitment that is not active; *)
(* for an active one it returns (loss_percent > max_loss_percent) or        *)
(* (now >= expires_at), with loss_percent = ((amount - current_value) *     *)
(* 100) / amount and 0 when amount = 0: 10 for 1000/900, 30 for 1000/700.   *)
C11_CheckViolationsValue ==
    (call.op = "check_violations" /\ Stored(call.id))
        => LET c == store[call.id]
               loss_percent == IF c.amount = 0 THEN 0
                               ELSE ((c.amount - c.current_value) * 100) \div c.amount
               unexpired == c.status = "active" /\ now < c.expires_at
           IN  /\ call.result = "Ok"
               /\ c.status # "active" => call.retBool = FALSE
               /\ c.status = "active"
                     => call.retBool = (loss_percent > c.rules.max_loss_percent
                                        \/ now >= c.expires_at)
               /\ (unexpired /\ c.amount = 1000 /\ c.current_value = 900)
                     => call.retBool = (10 > c.rules.max_loss_percent)
               /\ (unexpired /\ c.amount = 1000 /\ c.current_value = 700)
                     => call.retBool = (30 > c.rules.max_loss_percent)
               /\ (unexpired /\ c.amount = 0) => call.retBool = FALSE

C11_Witness ==
    /\ call.op = "check_violations"
    /\ call.retBool = TRUE
    /\ store[call.id].status = "active"
    /\ store[call.id].current_value = 900
    /\ store[call.id].rules.max_loss_percent = 9
    /\ now < store[call.id].expires_at

(* C12: for every stored commitment, active or not, and at every ledger     *)
(* time, has_violations of get_violation_details equals the result of       *)
(* check_violations, has_violations = loss_violated or duration_violated,   *)
(* and time_remaining = max(0, expires_at - now).                           *)
C12_DetailsAgree ==
    \A id \in DOMAIN store :
        LET d == get_violation_details(id).ret
            left == store[id].expires_at - now
        IN  /\ d[1] = check_violations(id).ret
            /\ d[1] = (d[2] \/ d[3])
            /\ d[5] = IF left > 0 THEN left ELSE 0

(* C13: check_violations, get_violation_details and get_commitment change   *)
(* no commitment record (no status, also when a violation is detected) and  *)
(* no token balance.                                                        *)
C13_QueriesPure ==
    [][call'.op \in {"check_violations", "get_violation_details", "get_commitment"}
          => (store' = store /\ bal' = bal)]_vars

C13_Witness ==
    /\ call.op = "check_violations"
    /\ call.retBool = TRUE
    /\ store[call.id].status = "active"
    /\ now >= store[call.id].expires_at

(* C14: update_value(id, new_value) on an active commitment stores          *)
(* current_value = new_value and, when the new value exceeds the loss       *)
(* limit, moves the status away from active; it never makes a status that   *)
(* is not active active again.                                              *)
C14_UpdateValueStores ==
    [][(call'.op = "update_value" /\ Stored(call'.id))
          => LET c == store[call'.id]
                 d == store'[call'.id]
             IN  /\ c.status = "active"
                       => /\ d.current_value = call'.amount
                          /\ loss_percent_of(d) > d.rules.max_loss_percent
                                => d.status # "active"
                 /\ c.status # "active" => d.status # "active"]_vars

MutatingOps == {"create_commitment", "settle", "early_exit", "allocate"}

(* C15: a call of create_commitment, settle, early_exit or allocate that    *)
(* fails returns a CommitmentError and does not abort: no authorised call   *)
(* on the initialised contract ends in a panic.                             *)
C15_NoAbort ==
    (call.op \in MutatingOps /\ call.auth /\ "NFT" \in DOMAIN instance)
        => call.result # "panic"

(* C16: every stored commitment has early_exit_penalty in 0..100, so the    *)
(* early-exit penalty is between 0 and current_value and the remainder is   *)
(* not negative.                                                            *)
C16_PenaltyInRange ==
    \A id \in DOMAIN store :
        LET c == store[id]
            penalty_amount == RustDiv(c.current_value * c.rules.early_exit_penalty, 100)
        IN  /\ c.rules.early_exit_penalty \in 0..100
            /\ 0 <= penalty_amount
            /\ penalty_amount <= c.current_value

(* C17: every stored commitment has amount > 0, and every operation other   *)
(* than create_commitment leaves amount, asset_address, owner, rules,       *)
(* created_at and expires_at of every stored commitment as they were.       *)
C17_TermsFixed ==
    [][/\ \A id \in DOMAIN store' : store'[id].amount > 0
       /\ call'.op # "create_commitment"
             => \A id \in DOMAIN store :
                   /\ id \in DOMAIN store'
                   /\ store'[id].amount = store[id].amount
                   /\ store'[id].asset_address = store[id].asset_address
                   /\ store'[id].owner = store[id].owner
                   /\ store'[id].rules = store[id].rules
                   /\ store'[id].created_at = store[id].created_at
                   /\ store'[id].expires_at = store[id].expires_at]_vars

C17_Witness ==
    /\ call.op = "settle"
    /\ call.result = "Ok"
    /\ store[call.id].amount = 1000
    /\ store[call.id].status = "settled"
    /\ bal[store[call.id].asset_address][Contract] = 0

(* C18: settle, early_exit by an authenticated caller and allocate on an id *)
(* under which nothing is stored return NotFound and change no record and   *)
(* no balance; get_commitment, check_violations and get_violation_details   *)
(* on such an id abort.                                                     *)
C18_MissingCommitment ==
    [][~Stored(call'.id)
          => /\ (call'.op \in {"settle", "allocate"}
                 \/ (call'.op = "early_exit" /\ call'.auth))
                   => (call'.result = "NotFound" /\ store' = store /\ bal' = bal)
             /\ call'.op \in {"get_commitment", "check_violations", "get_violation_details"}
                   => (call'.result = "panic" /\ store' = store /\ bal' = bal)]_vars

C18_Witness ==
    /\ call.op = "allocate"
    /\ call.result = "NotFound"
    /\ call.amount > 0
    /\ Stored(CommitmentIdStub)
    /\ bal[store[CommitmentIdStub].asset_address][Contract] >= call.amount

(* C19: allocate on a commitment that is not active returns AlreadySettled  *)
(* and moves no tokens; allocate on an active commitment with 0 < amount <= *)
(* escrow balance moves exactly amount of the commitment's asset from the   *)
(* escrow to target_pool and leaves the commitment record unchanged.        *)
C19_Allocate ==
    [][(call'.op = "allocate" /\ Stored(call'.id))
          => LET c == store[call'.id]
             IN  /\ c.status # "active"
                       => (call'.result = "AlreadySettled" /\ bal' = bal /\ store' = store)
                 /\ (/\ c.status = "active"
                     /\ 0 < call'.amount
                     /\ call'.amount <= bal[c.asset_address][Contract])
                       => /\ call'.result = "Ok"
                          /\ bal'[c.asset_address][call'.who] =
                                 bal[c.asset_address][call'.who] + call'.amount
                          /\ bal'[c.asset_address][Contract] =
                                 bal[c.asset_address][Contract] - call'.amount
                          /\ OthersUnchanged(c.asset_address, {call'.who, Contract})
                          /\ store' = store]_vars

C19_Witness ==
    /\ call.op = "allocate"
    /\ call.result = "Ok"
    /\ call.amount = 600
    /\ store[call.id].status = "active"
    /\ bal[store[call.id].asset_address][call.who] = 600
    /\ bal[store[call.id].asset_address][Contract] = 400

(* C20: verify_compliance is true exactly when the drawdown is at most      *)
(* max_loss_percent, the commitment has not expired (not tested when        *)
(* duration_days = 0), the accumulated fees are at least min_fee_threshold  *)
(* and the core reports no violations.                                      *)
C20_VerifyCompliance ==
    (call.op = "verify_compliance" /\ Stored(call.id))
        => LET c == store[call.id]
               drawdown == IF c.amount = 0 THEN 0
                           ELSE ((c.amount - c.current_value) * 100) \div c.amount
               loss_ok == drawdown <= c.rules.max_loss_percent
               duration_ok == c.rules.duration_days = 0 \/ now < c.expires_at
               fees_ok == fees_of(call.id) >= c.rules.min_fee_threshold
               no_violations == ~violations[call.id]
           IN  /\ call.result = "Ok"
               /\ call.retBool = (loss_ok /\ duration_ok /\ fees_ok /\ no_violations)
               /\ (c.amount = 1000 /\ c.current_value = 700 /\ c.rules.max_loss_percent = 20)
                     => call.retBool = FALSE

C20_Witness ==
    /\ call.op = "verify_compliance"
    /\ call.retBool = TRUE
    /\ store[call.id].rules.duration_days = 0
    /\ now >= store[call.id].expires_at
    /\ store[call.id].rules.min_fee_threshold = 100
    /\ store[call.id].current_value = 900

(* the attestation sequence of a commitment after the step *)
LogAfter(id) ==
    IF id \in DOMAIN attestations' THEN attestations'[id] ELSE <<>>

(* C21: get_attestations returns the empty sequence, not an error, when     *)
(* nothing was attested; attest lengthens the commitment's sequence by one  *)
(* record placed last, with the attestation_type passed, timestamp = now    *)
(* and passed = not has_violations as the core reports; nothing else        *)
(* changes an earlier record or another commitment's sequence.              *)
C21_AttestationLog ==
    [][/\ call'.op = "get_attestations"
             => /\ call'.result = "Ok"
                /\ call'.retLog = get_attestations(call'.id)
                /\ call'.id \notin DOMAIN attestations => call'.retLog = <<>>
       /\ call'.op = "attest"
             => LET old == get_attestations(call'.id)
                    new == LogAfter(call'.id)
                IN  /\ Len(new) = Len(old) + 1
                    /\ SubSeq(new, 1, Len(old)) = old
                    /\ new[Len(new)].attestation_type = call'.kind
                    /\ new[Len(new)].timestamp = now
                    /\ new[Len(new)].passed = ~violations_of(call'.id)
                    /\ \A id \in Ids \ {call'.id} : LogAfter(id) = get_attestations(id)
       /\ call'.op # "attest"
             => \A id \in Ids : LogAfter(id) = get_attestations(id)]_vars

C21_Witness ==
    /\ call.op = "attest"
    /\ call.id = CommitmentIdStub
    /\ Len(get_attestations(CommitmentIdStub)) = 2
    /\ attestations[CommitmentIdStub][1].attestation_type = "general"
    /\ attestations[CommitmentIdStub][2].attestation_type = "health_check"
    /\ attestations[CommitmentIdStub][1].timestamp < attestations[CommitmentIdStub][2].timestamp
    /\ attestations[CommitmentIdStub][2].passed = FALSE

(* the fee accumulator of a commitment after the step *)
FeesAfter(id) ==
    IF id \in DOMAIN fees' THEN fees'[id] ELSE 0

(* C22: the fee accumulator of a commitment is the sum of the amounts       *)
(* recorded for it, it never decreases, and fees_generated of               *)
(* get_health_metrics equals it; 100 recorded twice gives 200.              *)
C22_FeeAccumulator ==
    [][/\ \A id \in Ids : FeesAfter(id) >= fees_of(id)
       /\ (call'.op = "record_fees" /\ call'.result = "Ok")
             => FeesAfter(call'.id) = fees_of(call'.id) + call'.amount
       /\ (call'.op = "get_health_metrics" /\ call'.result = "Ok")
             => call'.retMetrics.fees_generated = fees_of(call'.id)]_vars

(* C23: calculate_compliance_score is in 0..100 for every commitment, also  *)
(* with amount = 0, a drawdown above 100 percent or fees below the          *)
(* threshold, and it is 100 with zero drawdown, fees at or above            *)
(* min_fee_threshold and no violations.                                     *)
C23_ScoreInRange ==
    (call.op = "calculate_compliance_score" /\ Stored(call.id))
        => LET c == store[call.id]
               zero_drawdown == c.amount = 0 \/ c.amount - c.current_value = 0
           IN  /\ call.result = "Ok"
               /\ call.retScore \in 0..100
               /\ (/\ zero_drawdown
                   /\ fees_of(call.id) >= c.rules.min_fee_threshold
                   /\ ~violations_of(call.id))
                     => call.retScore = 100

C23_Witness ==
    /\ call.op = "calculate_compliance_score"
    /\ Stored(call.id)
    /\ call.retScore = 0
    /\ store[call.id].amount = 1000
    /\ store[call.id].current_value = -100
    /\ fees_of(call.id) < store[call.id].rules.min_fee_threshold

(* C24: the compliance_score of get_health_metrics equals                   *)
(* calculate_compliance_score for the same state, initial_value is the      *)
(* commitment's amount, drawdown_percent is ((amount - current_value) *     *)
(* 100) / amount and 0 when amount = 0, and last_attestation is the         *)
(* timestamp of the most recent attestation, 0 when there is none.          *)
C24_MetricsConsistent ==
    (call.op = "get_health_metrics" /\ Stored(call.id))
        => LET c == store[call.id]
               m == call.retMetrics
               log == get_attestations(call.id)
           IN  /\ call.result = "Ok"
               /\ m.compliance_score = calculate_compliance_score(call.id).ret
               /\ m.initial_value = c.amount
               /\ m.drawdown_percent =
                      IF c.amount = 0 THEN 0
                      ELSE ((c.amount - c.current_value) * 100) \div c.amount
               /\ m.last_attestation = IF log = <<>> THEN 0 ELSE log[Len(log)].timestamp

C24_Witness ==
    /\ call.op = "get_health_metrics"
    /\ Stored(call.id)
    /\ call.retMetrics.drawdown_percent = 10
    /\ Len(get_attestations(call.id)) = 2
    /\ attestations[call.id][1].timestamp < attestations[call.id][2].timestamp
    /\ call.retMetrics.last_attestation = attestations[call.id][2].timestamp
    /\ call.retMetrics.compliance_score = 50

(* C25: the escrow's balance of an asset is at least the current_value of   *)
(* every active commitment in that asset, so that a settle at maturity      *)
(* finds enough balance to pay the owner.                                   *)
C25_EscrowSolvent ==
    \A id \in DOMAIN store :
        store[id].status = "active"
            => bal[store[id].asset_address][Contract] >= store[id].current_value

C27_PayoutOnlyToOwner ==
    [][call'.op \in {"settle", "early_exit"}
          => /\ ~Stored(call'.id) => bal' = bal
             /\ Stored(call'.id)
                   => LET c == store[call'.id]
                      IN  /\ \A a \in Assets, h \in Holders :
                                (a # c.asset_address \/ h # c.owner)
                                    => bal'[a][h] <= bal[a][h]
                          /\ bal' # bal
                                => /\ c.status = "active"
                                   /\ store'[call'.id].status # "active"]_vars

C27_Witness ==
    /\ call.op = "settle"
    /\ call.result = "Ok"
    /\ store[call.id].owner = "bob"
    /\ bal[store[call.id].asset_address]["bob"] = SmallBalance
    /\ bal[store[call.id].asset_address]["alice"] < InitialBalance
    /\ bal[store[call.id].asset_address][Contract] > 0

(* C28: an early_exit succeeds only at a ledger time before expires_at, so  *)
(* the penalty is never charged at or after maturity.                       *)
C28_EarlyExitBeforeMaturity ==
    [][(call'.op = "early_exit" /\ call'.result = "Ok")
          => now < store[call'.id].expires_at]_vars

(* the sum of the balances of the holders in S *)
RECURSIVE SumOfBalances(_, _, _)
SumOfBalances(b, asset, S) ==
    IF S = {} THEN 0
    ELSE LET h == CHOOSE x \in S : TRUE
         IN  b[asset][h] + SumOfBalances(b, asset, S \ {h})

(* C29: no operation creates or destroys tokens: the sum of all balances of *)
(* an asset stays the same; the escrow balance rises only in a successful   *)
(* create_commitment, by amount, and falls only in a successful settle,     *)
(* early_exit or allocate, by exactly what one other holder receives; a     *)
(* failed operation changes no balance.                                     *)
C29_TokenConservation ==
    [][/\ \A a \in Assets :
             /\ SumOfBalances(bal', a, Holders) = SumOfBalances(bal, a, Holders)
             /\ bal'[a][Contract] > bal[a][Contract]
                   => /\ call'.op = "create_commitment"
                      /\ call'.result = "Ok"
                      /\ call'.asset = a
                      /\ bal'[a][Contract] = bal[a][Contract] + call'.amount
             /\ bal'[a][Contract] < bal[a][Contract]
                   => /\ call'.op \in {"settle", "early_exit", "allocate"}
                      /\ call'.result = "Ok"
                      /\ \E h \in Holders \ {Contract} :
                            /\ bal'[a][h] - bal[a][h] = bal[a][Contract] - bal'[a][Contract]
                            /\ OthersUnchanged(a, {h, Contract})
       /\ call'.result # "Ok" => bal' = bal]_vars

C29_Witness ==
    /\ call.op = "early_exit"
    /\ call.result = "Ok"
    /\ store[call.id].current_value = 1000
    /\ store[call.id].rules.early_exit_penalty = 10
    /\ bal[store[call.id].asset_address][Contract] = 105
    /\ bal[store[call.id].asset_address]["bob"] = 0

====
